---- MODULE Spec2Model ----
(***************************************************************************)
(* Model of suss (src/lib.rs): on-demand activation and discovery of       *)
(* singleton services over unix sockets.                                   *)
(*                                                                         *)
(* Clients call connect_to_service; spawned or autonomous processes run    *)
(* ServerService::try_and_open_raw_socket followed by run_server.  The     *)
(* file system holds the named socket of one service in one base context   *)
(* directory and the ephemeral liveness sockets of the temp directory.     *)
(***************************************************************************)
EXTENDS Integers, FiniteSets, Sequences, TLC

\* ---- bounds of the model -------------------------------------------------
MaxClients == 2     \* concurrent callers of connect_to_service
MaxProcs == 2       \* service processes that can ever be started
MaxEphem == 2       \* distinct values get_random_sockpath can produce
MaxCalls == 2       \* connect_to_service calls made in all
MaxTimeout == 2     \* largest liveness_timeout, in clock ticks
MaxStray == 1       \* connections made to an ephemeral socket by strangers
MaxHosts == 3       \* service processes of the hosting-only specification
MaxTok == 2         \* distinct command-line tokens
MaxArgs == 2        \* longest token list of a declaration or a prefix

Clients == 1..MaxClients
AllProcs == 1..MaxProcs
EphemPaths == 1..MaxEphem

\* ---- paths and files -----------------------------------------------------
\* base_context_directory.join(socket_name): the one named socket path.
NamedPath == 0
Paths == {NamedPath} \cup EphemPaths
\* Value of files[p] when no file exists at p; otherwise files[p] is the
\* process (named path) or caller (ephemeral path) whose bind created it.
NoFile == 0

VARIABLES
    files,      \* files[p]: creator of the socket file at path p, or NoFile
    client,     \* client[c]: the caller's position in connect_to_service
    proc        \* proc[s]: a service process's position in the hosting code

vars == <<files, client, proc>>

\* The service processes of the run.
Procs == DOMAIN proc

\* Result values (IoResult): kind names the Ok/Err variant, val carries the
\* listener reached (Conn) or the duration in the message (TimedOut).
Res(k, v) == [kind |-> k, val |-> v]
NoRes == Res("None", 0)

\* ---- external capabilities ----------------------------------------------
\* CleanablePathBuf's Drop: remove the file at the path, whoever made it;
\* a failure to remove (no such file) is ignored.
CleanablePathDrop(fs, p) == [fs EXCEPT ![p] = NoFile]

\* A service process holds its listener (unix_listener_socket) from a
\* successful try_and_open_raw_socket until the server function has ended.
Listening(s) == proc[s].pc \in {"bound", "body"}

\* A caller holds its ephemeral listener (ephem) from ul_bind to drop(ephem).
EphemListening(c) == client[c].pc \in {"launch", "accept", "shutdown"}

\* us_connect to the named socket: reaches the process whose bind created
\* the file there, when that process still listens; 0 when connect fails.
UsConnectNamed ==
    IF files[NamedPath] # NoFile /\ Listening(files[NamedPath])
    THEN files[NamedPath] ELSE 0

\* us_connect to ephemeral path p: reaches the caller whose bind created the
\* file there, when that caller still listens on it; 0 when connect fails.
UsConnectEphem(p) ==
    IF files[p] # NoFile /\ EphemListening(files[p]) /\ client[files[p]].path = p
    THEN files[p] ELSE 0

\* with_timeout(fut, d): None is possible only once d has elapsed.
TimeoutElapsed(c) == client[c].elapsed >= client[c].tmo

\* ---- initial state -------------------------------------------------------
InitClient ==
    [pc |-> "idle", path |-> 0, child |-> 0, res |-> NoRes, tmo |-> 0,
     elapsed |-> 0, calls |-> 0, launches |-> 0, accepts |-> 0,
     delivered |-> 0, stray |-> 0, discs |-> 0, hooks |-> 0, found |-> 0,
     fresh |-> FALSE, seq |-> FALSE, total |-> 0, alone |-> FALSE]

InitProc ==
    [pc |-> "none", live |-> 0, die |-> FALSE, res |-> "None",
     pings |-> 0, ping |-> "no"]

Init ==
    /\ files = [p \in Paths |-> NoFile]
    /\ client = [c \in Clients |-> InitClient]
    /\ proc = [s \in AllProcs |-> InitProc]

\* ---- connect_to_running_service -----------------------------------------
\* The results one discovery attempt can have in the current state: the
\* connect error, or, once the raw connect succeeded, whatever the stream
\* conversion and wrap_connection return (a connection or their error).
ConnectToRunningService ==
    IF UsConnectNamed = 0
    THEN {Res("ConnectErr", 0)}
    ELSE {Res("Conn", UsConnectNamed), Res("WrapErr", UsConnectNamed)}

\* A process that has ended: its locals are gone, its result remains.
Exited(s, r) ==
    [pc |-> "exited", live |-> 0, die |-> FALSE, res |-> r,
     pings |-> proc[s].pings, ping |-> "no"]

\* The number of connect_to_service calls made so far by callers 1..n.
RECURSIVE CallsMade(_)
CallsMade(n) == IF n = 0 THEN 0 ELSE client[n].calls + CallsMade(n - 1)

\* The first free process slot: the process a spawn creates.
FreeProc == CHOOSE s \in Procs : proc[s].pc = "none" /\ \A t \in Procs : proc[t].pc = "none" => s <= t
HasFreeProc == \E s \in Procs : proc[s].pc = "none"

\* Variant of Leave that forgets the path: the socket file is not removed.
LeaveLeak(cl, c, r) ==
    /\ client' = [cl EXCEPT ![c].pc = "done", ![c].res = r, ![c].tmo = 0]
    /\ files' = files

\* Every way out of connect_to_service after the ephemeral path was made
\* releases ephem and ephemeral_socket_path: the caller stops listening
\* and the file at its path is removed.
Leave(cl, c, r) ==
    /\ client' = [cl EXCEPT ![c].pc = "done", ![c].res = r, ![c].tmo = 0]
    /\ files' = CleanablePathDrop(files, client[c].path)

\* ---- connect_to_service --------------------------------------------------
\* Variant of ConnectStart that returns the error of a failed raw connect.
ConnectStartSurfaces(c) ==
    /\ client[c].pc \in {"idle", "done"}
    /\ CallsMade(MaxClients) < MaxCalls
    /\ c > 1 => client[c - 1].calls > 0
    /\ \E r \in ConnectToRunningService :
        client' = [client EXCEPT ![c] =
            [pc |-> IF r.kind = "WrapErr" THEN "bind" ELSE "done",
             path |-> 0, child |-> 0,
             res |-> IF r.kind = "WrapErr" THEN NoRes ELSE r,
             tmo |-> 0, elapsed |-> 0, calls |-> @.calls + 1,
             launches |-> 0, accepts |-> 0, delivered |-> 0, stray |-> 0,
             discs |-> 1, hooks |-> 0, found |-> UsConnectNamed,
             fresh |-> (files[NamedPath] = NoFile),
             seq |-> /\ @.calls > 0 /\ @.fresh /\ @.res.kind = "Conn"
                     /\ @.child # 0 /\ @.res.val = @.child
                     /\ UsConnectNamed = @.child,
             total |-> @.launches, alone |-> FALSE]]
    /\ UNCHANGED <<files, proc>>

\* A caller starts connect_to_service and makes the first discovery attempt.
\* Ok(s) is returned; any Err(e) enters the on-demand start.
ConnectStart(c) ==
    /\ client[c].pc \in {"idle", "done"}
    /\ CallsMade(MaxClients) < MaxCalls
    /\ c > 1 => client[c - 1].calls > 0
    /\ \E r \in ConnectToRunningService :
        client' = [client EXCEPT ![c] =
            [pc |-> IF r.kind = "Conn" THEN "done" ELSE "bind",
             path |-> 0, child |-> 0,
             res |-> IF r.kind = "Conn" THEN r ELSE NoRes,
             tmo |-> 0, elapsed |-> 0, calls |-> @.calls + 1,
             launches |-> 0, accepts |-> 0, delivered |-> 0, stray |-> 0,
             discs |-> 1, hooks |-> 0, found |-> UsConnectNamed,
             fresh |-> (files[NamedPath] = NoFile),
             seq |-> /\ @.calls > 0 /\ @.fresh /\ @.res.kind = "Conn"
                     /\ @.child # 0 /\ @.res.val = @.child
                     /\ UsConnectNamed = @.child,
             total |-> @.launches, alone |-> FALSE]]
    /\ UNCHANGED <<files, proc>>

\* Variant of ConnectToRunning that starts the service when discovery fails.
ConnectToRunningStarts(c) ==
    /\ client[c].pc \in {"idle", "done"}
    /\ CallsMade(MaxClients) < MaxCalls
    /\ c > 1 => client[c - 1].calls > 0
    /\ \E r \in ConnectToRunningService :
        client' = [client EXCEPT ![c] =
            [InitClient EXCEPT
                !.pc = IF r.kind = "Conn" THEN "done" ELSE "bind",
                !.res = IF r.kind = "Conn" THEN r ELSE NoRes,
                !.calls = client[c].calls + 1, !.discs = 1,
                !.found = UsConnectNamed, !.alone = TRUE]]
    /\ UNCHANGED <<files, proc>>

\* ReifiedService::connect_to_running: a caller calls
\* connect_to_running_service on its own; its result is returned.
ConnectToRunning(c) ==
    /\ client[c].pc \in {"idle", "done"}
    /\ CallsMade(MaxClients) < MaxCalls
    /\ c > 1 => client[c - 1].calls > 0
    /\ \E r \in ConnectToRunningService :
        client' = [client EXCEPT ![c] =
            [InitClient EXCEPT
                !.pc = "done", !.res = r, !.calls = client[c].calls + 1,
                !.discs = 1, !.found = UsConnectNamed, !.alone = TRUE]]
    /\ UNCHANGED <<files, proc>>

\* get_random_sockpath, CleanablePathBuf::new and ul_bind.  The path object
\* exists before the bind, so a failed bind releases it on the way out.  The
\* bind fails when a file is at the path, and can fail for other reasons
\* (an unwritable temp directory) when none is.
EphemBind(c) ==
    /\ client[c].pc = "bind"
    /\ \E p \in EphemPaths :
        \/ /\ client' = [client EXCEPT ![c].pc = "done", ![c].path = p,
                                        ![c].res = Res("BindErr", 0)]
           /\ files' = CleanablePathDrop(files, p)
        \/ /\ files[p] = NoFile
           /\ client' = [client EXCEPT ![c].pc = "launch", ![c].path = p]
           /\ files' = [files EXCEPT ![p] = c]
    /\ UNCHANGED proc

\* Variant of LaunchFail that logs the error and goes on to the wait.
LaunchFailIgnored(c) ==
    /\ client[c].pc = "launch"
    /\ client' = [client EXCEPT ![c].pc = "accept", ![c].launches = @ + 1,
                                ![c].total = @ + 1, ![c].tmo = 1]
    /\ UNCHANGED <<files, proc>>

\* run_service_command_raw fails: the error is returned.
LaunchFail(c) ==
    /\ client[c].pc = "launch"
    /\ Leave([client EXCEPT ![c].launches = @ + 1, ![c].total = @ + 1], c, Res("LaunchErr", 0))
    /\ UNCHANGED proc

\* run_service_command_raw succeeds: a child process exists, started with
\* the ephemeral path as its liveness path.  Whether the child's main passes
\* die_with_parent_prefailure is the child's choice.  The call's argument
\* liveness_timeout is first read by the wait that follows, so its value
\* is drawn here.
LaunchOk(c) ==
    /\ client[c].pc = "launch"
    /\ HasFreeProc
    /\ \E d \in BOOLEAN :
        proc' = [proc EXCEPT ![FreeProc] =
            [pc |-> "spawned", live |-> client[c].path, die |-> d,
             res |-> "None", pings |-> 0, ping |-> "no"]]
    /\ \E t \in 1..MaxTimeout :
        client' = [client EXCEPT ![c].pc = "accept", ![c].child = FreeProc,
                                 ![c].launches = @ + 1, ![c].total = @ + 1,
                                 ![c].tmo = t]
    /\ UNCHANGED files

\* Time passes while the caller waits in with_timeout.
Tick(c) ==
    /\ client[c].pc = "accept"
    /\ client[c].elapsed < client[c].tmo
    /\ client' = [client EXCEPT ![c].elapsed = @ + 1]
    /\ UNCHANGED <<files, proc>>

\* Variant of TimedOutError whose message carries no duration.
TimedOutErrorNoDuration(c) == Res("TimedOut", 0)

\* The error connect_to_service builds when with_timeout returns None.
TimedOutError(c) == Res("TimedOut", client[c].tmo)

\* Variant of LivenessTimeout that kills the child it gave up on.
LivenessTimeoutKill(c) ==
    /\ client[c].pc = "accept"
    /\ TimeoutElapsed(c)
    /\ Leave(client, c, TimedOutError(c))
    /\ proc' = [proc EXCEPT ![client[c].child] =
                    IF @.pc = "exited" THEN @ ELSE Exited(client[c].child, "Killed")]

\* with_timeout returns None: the TimedOut error is returned.  The Child is
\* dropped, which neither kills nor waits for the process.
LivenessTimeout(c) ==
    /\ client[c].pc = "accept"
    /\ TimeoutElapsed(c)
    /\ Leave(client, c, TimedOutError(c))
    /\ UNCHANGED proc

\* ul_try_accept_connection returns an error: it is returned.
AcceptErr(c) ==
    /\ client[c].pc = "accept"
    /\ Leave([client EXCEPT ![c].elapsed = 0], c, Res("AcceptErr", 0))
    /\ UNCHANGED proc

\* Variant of AcceptConn that keeps accepting while connections are pending.
AcceptConnDrain(c) ==
    /\ client[c].pc = "accept"
    /\ client[c].delivered > client[c].accepts
    /\ client' = [client EXCEPT
            ![c].pc = IF client[c].delivered > client[c].accepts + 1
                      THEN "accept" ELSE "shutdown",
            ![c].accepts = @ + 1]
    /\ UNCHANGED <<files, proc>>

\* ul_try_accept_connection returns the first pending connection.
AcceptConn(c) ==
    /\ client[c].pc = "accept"
    /\ client[c].delivered > client[c].accepts
    /\ client' = [client EXCEPT ![c].pc = "shutdown", ![c].accepts = @ + 1,
                                ![c].elapsed = 0, ![c].tmo = 0]
    /\ UNCHANGED <<files, proc>>

\* Variant of ShutdownFail that runs the hook before it returns the error.
ShutdownFailAfterHook(c) ==
    /\ client[c].pc = "shutdown"
    /\ Leave([client EXCEPT ![c].hooks = @ + 1], c, Res("ShutdownErr", 0))
    /\ UNCHANGED proc

\* us_shutdown of the liveness connection fails: the error is returned.
ShutdownFail(c) ==
    /\ client[c].pc = "shutdown"
    /\ Leave(client, c, Res("ShutdownErr", 0))
    /\ UNCHANGED proc

\* Variant of ShutdownOk that keeps the listener's path until the call ends.
ShutdownOkKeepsPath(c) ==
    /\ client[c].pc = "shutdown"
    /\ client' = [client EXCEPT ![c].pc = "hook"]
    /\ UNCHANGED <<files, proc>>

\* us_shutdown succeeds; the stream, ephem and ephemeral_socket_path are
\* dropped before the hook runs.
ShutdownOk(c) ==
    /\ client[c].pc = "shutdown"
    /\ client' = [client EXCEPT ![c].pc = "hook"]
    /\ files' = CleanablePathDrop(files, client[c].path)
    /\ UNCHANGED proc

\* Variant of PostLiveness that kills the child when the hook fails.
PostLivenessKill(c) ==
    /\ client[c].pc = "hook"
    /\ \/ /\ client' = [client EXCEPT ![c].pc = "done", ![c].hooks = @ + 1,
                                      ![c].res = Res("HookErr", 0)]
          /\ proc' = [proc EXCEPT ![client[c].child] =
                          IF @.pc = "exited" THEN @ ELSE Exited(client[c].child, "Killed")]
       \/ /\ client' = [client EXCEPT ![c].pc = "disc2", ![c].hooks = @ + 1]
          /\ UNCHANGED proc
    /\ UNCHANGED files

\* after_post_liveness_subprocess: an error is returned, Ok goes on to the
\* second discovery attempt.
PostLiveness(c) ==
    /\ client[c].pc = "hook"
    /\ \/ client' = [client EXCEPT ![c].pc = "done", ![c].hooks = @ + 1,
                                   ![c].res = Res("HookErr", 0)]
       \/ client' = [client EXCEPT ![c].pc = "disc2", ![c].hooks = @ + 1]
    /\ UNCHANGED <<files, proc>>

\* Variant of ConnectAgain that polls the named socket: a failed attempt is
\* made once more before its result is returned.
ConnectAgainPoll(c) ==
    /\ client[c].pc = "disc2"
    /\ \E r \in ConnectToRunningService :
        client' = [client EXCEPT
            ![c].pc = IF r.kind = "Conn" \/ client[c].discs >= 2 THEN "done" ELSE "disc2",
            ![c].discs = @ + 1,
            ![c].res = IF r.kind = "Conn" \/ client[c].discs >= 2 THEN r ELSE NoRes]
    /\ UNCHANGED <<files, proc>>

\* Variant of ConnectAgain that starts the service again when the second
\* attempt fails.
ConnectAgainRetry(c) ==
    /\ client[c].pc = "disc2"
    /\ \E r \in ConnectToRunningService :
        client' = [client EXCEPT
            ![c].pc = IF r.kind = "Conn" THEN "done" ELSE "bind",
            ![c].discs = @ + 1,
            ![c].res = IF r.kind = "Conn" THEN r ELSE NoRes]
    /\ UNCHANGED <<files, proc>>

\* The second connect_to_running_service; its result is the call's result.
ConnectAgain(c) ==
    /\ client[c].pc = "disc2"
    /\ \E r \in ConnectToRunningService :
        client' = [client EXCEPT ![c].pc = "done", ![c].discs = @ + 1, ![c].res = r]
    /\ UNCHANGED <<files, proc>>

\* Some other process connects to a caller's ephemeral socket.
StrayConnect(c) ==
    /\ client[c].path # 0
    /\ UsConnectEphem(client[c].path) = c
    /\ client[c].stray < MaxStray
    /\ client' = [client EXCEPT ![c].delivered = @ + 1, ![c].stray = @ + 1]
    /\ UNCHANGED <<files, proc>>

\* ---- service processes ---------------------------------------------------
\* A service process is started by something other than connect_to_service:
\* it gets no liveness path.
Autostart ==
    /\ HasFreeProc
    /\ proc' = [proc EXCEPT ![FreeProc] =
            [pc |-> "spawned", live |-> 0, die |-> FALSE, res |-> "None",
             pings |-> 0, ping |-> "no"]]
    /\ UNCHANGED <<files, client>>

\* Variant of TryAndOpenRawSocket whose wrapping error leaves the socket
\* file just created.
TryAndOpenRawSocketWrapLeak(s) ==
    /\ proc[s].pc = "spawned"
    /\ IF files[NamedPath] # NoFile
       THEN /\ proc' = [proc EXCEPT ![s] = Exited(s, "BindErr")]
            /\ files' = CleanablePathDrop(files, NamedPath)
       ELSE \/ /\ proc' = [proc EXCEPT ![s].pc = "bound"]
               /\ files' = [files EXCEPT ![NamedPath] = s]
            \/ /\ proc' = [proc EXCEPT ![s] = Exited(s, "WrapErr")]
               /\ files' = [files EXCEPT ![NamedPath] = s]
    /\ UNCHANGED client

\* Variant of TryAndOpenRawSocket that sends the liveness ping before it
\* binds the named socket.
TryAndOpenRawSocketPingFirst(s) ==
    /\ proc[s].pc = "spawned"
    /\ IF proc[s].pings = 0 /\ proc[s].live # 0 /\ UsConnectEphem(proc[s].live) # 0
       THEN /\ proc' = [proc EXCEPT ![s].pings = @ + 1]
            /\ client' = [client EXCEPT ![UsConnectEphem(proc[s].live)].delivered = @ + 1]
            /\ UNCHANGED files
       ELSE /\ UNCHANGED client
            /\ IF files[NamedPath] # NoFile
               THEN /\ proc' = [proc EXCEPT ![s] = Exited(s, "BindErr")]
                    /\ files' = CleanablePathDrop(files, NamedPath)
               ELSE \/ /\ proc' = [proc EXCEPT ![s].pc = "bound"]
                       /\ files' = [files EXCEPT ![NamedPath] = s]
                    \/ /\ proc' = [proc EXCEPT ![s] = Exited(s, "WrapErr")]
                       /\ files' = CleanablePathDrop([files EXCEPT ![NamedPath] = s], NamedPath)

\* Variant of TryAndOpenRawSocket that unlinks an occupied path and binds.
TryAndOpenRawSocketRebind(s) ==
    /\ proc[s].pc = "spawned"
    /\ \/ /\ proc' = [proc EXCEPT ![s].pc = "bound"]
          /\ files' = [files EXCEPT ![NamedPath] = s]
       \/ /\ proc' = [proc EXCEPT ![s] = Exited(s, "WrapErr")]
          /\ files' = CleanablePathDrop([files EXCEPT ![NamedPath] = s], NamedPath)
    /\ UNCHANGED client

\* ServerService::try_and_open_raw_socket.  socket_path is made before
\* UnixListener::bind, so both early returns (bind error, wrapping error)
\* release it; on success it moves into the handle.
TryAndOpenRawSocket(s) ==
    /\ proc[s].pc = "spawned"
    /\ IF files[NamedPath] # NoFile
       THEN /\ proc' = [proc EXCEPT ![s] = Exited(s, "BindErr")]
            /\ files' = CleanablePathDrop(files, NamedPath)
       ELSE \/ /\ proc' = [proc EXCEPT ![s].pc = "bound"]
               /\ files' = [files EXCEPT ![NamedPath] = s]
            \/ /\ proc' = [proc EXCEPT ![s] = Exited(s, "WrapErr")]
               /\ files' = CleanablePathDrop([files EXCEPT ![NamedPath] = s], NamedPath)
    /\ UNCHANGED client

\* Variant of RunServerPing that goes on to the server function after a
\* failed ping whatever die_with_parent_prefailure says.
RunServerPingIgnoreDie(s) ==
    /\ proc[s].pc = "bound"
    /\ IF proc[s].live = 0
       THEN /\ proc' = [proc EXCEPT ![s].pc = "body"]
            /\ UNCHANGED <<files, client>>
       ELSE IF UsConnectEphem(proc[s].live) # 0
       THEN /\ \E o \in {"ok", "shuterr"} :
                proc' = [proc EXCEPT ![s].pc = "body", ![s].pings = @ + 1,
                                     ![s].ping = o]
            /\ client' = [client EXCEPT ![UsConnectEphem(proc[s].live)].delivered = @ + 1]
            /\ UNCHANGED files
       ELSE /\ proc' = [proc EXCEPT ![s].pc = "body", ![s].pings = @ + 1,
                                    ![s].ping = "connerr"]
            /\ UNCHANGED <<files, client>>

\* Variant of RunServerPing that tries the ping a second time when the
\* first connect fails.
RunServerPingRetry(s) ==
    /\ proc[s].pc = "bound"
    /\ IF proc[s].live = 0
       THEN /\ proc' = [proc EXCEPT ![s].pc = "body"]
            /\ UNCHANGED <<files, client>>
       ELSE IF UsConnectEphem(proc[s].live) # 0
       THEN /\ \E o \in {"ok", "shuterr"} :
                proc' = [proc EXCEPT ![s].pc = "body", ![s].pings = @ + 1,
                                     ![s].ping = o]
            /\ client' = [client EXCEPT ![UsConnectEphem(proc[s].live)].delivered = @ + 1]
            /\ UNCHANGED files
       ELSE IF proc[s].pings = 0
       THEN /\ proc' = [proc EXCEPT ![s].pings = @ + 1]
            /\ UNCHANGED <<files, client>>
       ELSE IF proc[s].die
       THEN /\ proc' = [proc EXCEPT ![s] = [Exited(s, "PingErr") EXCEPT !.pings = @ + 1]]
            /\ files' = CleanablePathDrop(files, NamedPath)
            /\ UNCHANGED client
       ELSE /\ proc' = [proc EXCEPT ![s].pc = "body", ![s].pings = @ + 1,
                                    ![s].ping = "connerr"]
            /\ UNCHANGED <<files, client>>

\* Variant of RunServerPing whose early return forgets the handle's path.
RunServerPingLeak(s) ==
    /\ proc[s].pc = "bound"
    /\ IF proc[s].live = 0
       THEN /\ proc' = [proc EXCEPT ![s].pc = "body"]
            /\ UNCHANGED <<files, client>>
       ELSE IF UsConnectEphem(proc[s].live) # 0
       THEN /\ \E o \in {"ok", "shuterr"} :
                proc' = [proc EXCEPT ![s].pc = "body", ![s].pings = @ + 1,
                                     ![s].ping = o]
            /\ client' = [client EXCEPT ![UsConnectEphem(proc[s].live)].delivered = @ + 1]
            /\ UNCHANGED files
       ELSE IF proc[s].die
       THEN /\ proc' = [proc EXCEPT ![s] = [Exited(s, "PingErr") EXCEPT !.pings = @ + 1]]
            /\ UNCHANGED <<files, client>>
       ELSE /\ proc' = [proc EXCEPT ![s].pc = "body", ![s].pings = @ + 1,
                                    ![s].ping = "connerr"]
            /\ UNCHANGED <<files, client>>

\* run_server up to the server function: the liveness ping.  The result of
\* us_shutdown on the ping connection is discarded.  A connect error with
\* die_with_parent_prefailure returns early, which releases the handle.
RunServerPing(s) ==
    /\ proc[s].pc = "bound"
    /\ IF proc[s].live = 0
       THEN /\ proc' = [proc EXCEPT ![s].pc = "body"]
            /\ UNCHANGED <<files, client>>
       ELSE IF UsConnectEphem(proc[s].live) # 0
       THEN /\ \E o \in {"ok", "shuterr"} :
                proc' = [proc EXCEPT ![s].pc = "body", ![s].pings = @ + 1,
                                     ![s].ping = o]
            /\ client' = [client EXCEPT ![UsConnectEphem(proc[s].live)].delivered = @ + 1]
            /\ UNCHANGED files
       ELSE IF proc[s].die
       THEN /\ proc' = [proc EXCEPT ![s] = [Exited(s, "PingErr") EXCEPT !.pings = @ + 1]]
            /\ files' = CleanablePathDrop(files, NamedPath)
            /\ UNCHANGED client
       ELSE /\ proc' = [proc EXCEPT ![s].pc = "body", ![s].pings = @ + 1,
                                    ![s].ping = "connerr"]
            /\ UNCHANGED <<files, client>>

\* the_service_function ends with Ok or Err; socket_path is dropped and the
\* result returned.
RunServerBody(s) ==
    /\ proc[s].pc = "body"
    /\ \E r \in {"BodyOk", "BodyErr"} :
        proc' = [proc EXCEPT ![s] = Exited(s, r)]
    /\ files' = CleanablePathDrop(files, NamedPath)
    /\ UNCHANGED client

\* A service process is killed: nothing is dropped, its socket file stays.
Crash(s) ==
    /\ proc[s].pc \in {"bound", "body"}
    /\ proc' = [proc EXCEPT ![s] = Exited(s, "Killed")]
    /\ UNCHANGED <<files, client>>

\* A service process is started with the liveness path of a caller that is
\* gone: no listener is at that path.
OrphanStart ==
    /\ HasFreeProc
    /\ \E p \in EphemPaths, d \in BOOLEAN :
        proc' = [proc EXCEPT ![FreeProc] =
            [pc |-> "spawned", live |-> p, die |-> d, res |-> "None",
             pings |-> 0, ping |-> "no"]]
    /\ UNCHANGED <<files, client>>

\* ---- specification -------------------------------------------------------
Next ==
    \/ \E c \in Clients : ConnectStart(c)
    \/ \E c \in Clients : ConnectToRunning(c)
    \/ \E c \in Clients : EphemBind(c)
    \/ \E c \in Clients : LaunchFail(c)
    \/ \E c \in Clients : LaunchOk(c)
    \/ \E c \in Clients : Tick(c)
    \/ \E c \in Clients : LivenessTimeout(c)
    \/ \E c \in Clients : AcceptErr(c)
    \/ \E c \in Clients : AcceptConn(c)
    \/ \E c \in Clients : ShutdownFail(c)
    \/ \E c \in Clients : ShutdownOk(c)
    \/ \E c \in Clients : PostLiveness(c)
    \/ \E c \in Clients : ConnectAgain(c)
    \/ \E c \in Clients : StrayConnect(c)
    \/ Autostart
    \/ \E s \in Procs : TryAndOpenRawSocket(s)
    \/ \E s \in Procs : RunServerPing(s)
    \/ \E s \in Procs : RunServerBody(s)
    \/ \E s \in Procs : Crash(s)

Spec == Init /\ [][Next]_vars

\* Service processes alone: no caller is active, processes are started from
\* outside, with no liveness path or with the path of a caller that is gone.
InitHost ==
    /\ files = [p \in Paths |-> NoFile]
    /\ client = [c \in Clients |-> InitClient]
    /\ proc = [s \in 1..MaxHosts |-> InitProc]

NextHost ==
    \/ Autostart
    \/ OrphanStart
    \/ \E s \in Procs : TryAndOpenRawSocket(s)
    \/ \E s \in Procs : RunServerPing(s)
    \/ \E s \in Procs : RunServerBody(s)
    \/ \E s \in Procs : Crash(s)

SpecHost == InitHost /\ [][NextHost]_vars

\* ---- declare_service!: run_service_command_raw -----------------------------
\* One call of the run_service_command_raw that declare_service! generates,
\* looked at on its own.  Under SpecCmd the variable client holds the call
\* (the declaration's literals and the two arguments) and proc holds the
\* Command handed to spawn; files plays no part.
\* Command-line tokens (OsStr values) and the token lists of a declaration.
Tokens == 1..MaxTok
TokenLists == UNION {[1..n -> Tokens] : n \in 0..MaxArgs}
\* An Option is the sequence of its zero or one values, as its into_iter().
OptionOf(S) == {<<>>} \cup {<<x>> : x \in S}
Once(x) == <<x>>
Chain(a, b) == a \o b
\* flatten: the items of the inner iterators, in order.
RECURSIVE Flatten(_)
Flatten(ss) == IF ss = <<>> THEN <<>> ELSE Chain(Head(ss), Flatten(Tail(ss)))
\* No Command has been built yet.
NoCommand == [program |-> 0, args |-> <<>>, res |-> "None"]

\* Variant of AllComponents that puts the last arguments before the
\* liveness part.
AllComponentsPostFirst(d, prefix, live) ==
    Chain(Chain(Chain(Chain(Flatten(prefix), Once(d.command)), d.pre_args),
                d.post_args),
          Flatten(IF live = <<>> THEN <<>>
                  ELSE <<Chain(Chain(d.liveness_pre_args, Once(live[1])),
                               d.liveness_post_args)>>))

\* all_components_iterator: the chained iterators of the macro body.
AllComponents(d, prefix, live) ==
    Chain(Chain(Chain(Chain(Flatten(prefix), Once(d.command)), d.pre_args),
                Flatten(IF live = <<>> THEN <<>>
                        ELSE <<Chain(Chain(d.liveness_pre_args, Once(live[1])),
                                     d.liveness_post_args)>>)),
          d.post_args)

InitCmd ==
    /\ files = [p \in Paths |-> NoFile]
    /\ client \in [decl : [command : Tokens, pre_args : TokenLists,
                           liveness_pre_args : TokenLists,
                           liveness_post_args : TokenLists,
                           post_args : TokenLists],
                   prefix : OptionOf(TokenLists),
                   live : OptionOf(Tokens)]
    /\ proc = NoCommand

\* run_service_command_raw: next() takes the program (expect panics on an
\* empty iterator), the rest are the arguments; spawn returns a Child or an
\* error.
RunServiceCommandRaw ==
    /\ proc = NoCommand
    /\ LET all == AllComponents(client.decl, client.prefix, client.live)
       IN  IF all = <<>>
           THEN proc' = [program |-> 0, args |-> <<>>, res |-> "Panic"]
           ELSE \E r \in {"Child", "SpawnErr"} :
                    proc' = [program |-> Head(all), args |-> Tail(all), res |-> r]
    /\ UNCHANGED <<files, client>>

NextCmd == RunServiceCommandRaw

SpecCmd == InitCmd /\ [][NextCmd]_vars

\* ---- properties ----------------------------------------------------------
Done(c) == client[c].pc = "done"
\* The step in which with_timeout returned None to caller c.
TimedOutStep(c) ==
    /\ client[c].pc = "accept"
    /\ client'[c].pc = "done"
    /\ client'[c].res.kind = "TimedOut"
\* The step in which run_server returned in process s.
RunReturns(s) ==
    /\ proc[s].pc \in {"bound", "body"}
    /\ proc'[s].pc = "exited"
    /\ proc'[s].res \in {"PingErr", "BodyOk", "BodyErr"}
\* The step in which UnixListener::bind failed in process s.
NamedBindFails(s) ==
    /\ proc[s].pc = "spawned"
    /\ proc'[s].res = "BindErr"

\* C1: a call that found a live listener at the named socket when it started
\* has invoked launch zero times and returned a connection to that listener.
C1_LiveListenerNoLaunch ==
    \A c \in Clients :
        Done(c) /\ ~client[c].alone /\ client[c].found # 0 =>
            /\ client[c].launches = 0
            /\ client[c].res = Res("Conn", client[c].found)

\* C2 as stated: a completed call that started with no socket file at the
\* named path has invoked launch exactly once, and a connection it returns
\* comes from the discovery step made after the service has bound.
C2_FreshExactlyOneLaunch ==
    \A c \in Clients :
        Done(c) /\ client[c].fresh =>
            /\ client[c].launches = 1
            /\ client[c].res.kind = "Conn" =>
                /\ client[c].discs = 2
                /\ proc[client[c].res.val].pc \in {"bound", "body", "exited"}

\* C2 amended: such a call has invoked launch exactly once unless its
\* ephemeral bind failed, and then zero times; a connection it returns comes
\* from the discovery step made after the service has bound.
C2_FreshOneLaunchUnlessBindFailed ==
    \A c \in Clients :
        Done(c) /\ client[c].fresh =>
            /\ client[c].launches = IF client[c].res.kind = "BindErr" THEN 0 ELSE 1
            /\ client[c].res.kind = "Conn" =>
                /\ client[c].discs = 2
                /\ proc[client[c].res.val].pc \in {"bound", "body", "exited"}

C2_Witness ==
    \E c \in Clients :
        /\ Done(c) /\ client[c].fresh
        /\ client[c].res.kind = "Conn" /\ client[c].launches = 1
        /\ client[c].res.val = client[c].child

\* C3: when a caller's first call on a fresh directory succeeded and the
\* service it started is still serving as the second call starts, the two
\* calls have invoked launch once in all and the second call succeeded at
\* its first discovery attempt.
C3_SecondCallNoLaunch ==
    \A c \in Clients :
        Done(c) /\ client[c].seq =>
            /\ client[c].total = 1
            /\ client[c].res.kind = "Conn"
            /\ client[c].discs = 1

\* C4: in the step in which run_server returns (the server function ended
\* with Ok or Err, or the ping failed with die_with_parent_prefailure) no
\* file is left at the named socket path.
C4_RunRemovesNamedSocket ==
    [][\A s \in Procs : RunReturns(s) => files'[NamedPath] = NoFile]_vars

C4_Witness ==
    \E s, t \in Procs :
        /\ proc[s].res = "PingErr"
        /\ proc[t].res \in {"BodyOk", "BodyErr"}
        /\ files[NamedPath] = NoFile

\* C5: a bind that fails because the named path is occupied leaves the file
\* that was at the path where it was.
C5_FailedBindKeepsFile ==
    [][\A s \in Procs : NamedBindFails(s) => files'[NamedPath] = files[NamedPath]]_vars

\* C6: a call whose launch failed has returned the launch error, without
\* waiting on the ephemeral listener, without the hook and without a
\* second discovery attempt.
C6_LaunchErrorReturned ==
    \A c \in Clients :
        client[c].launches >= 1 /\ client[c].child = 0 =>
            /\ Done(c)
            /\ client[c].res = Res("LaunchErr", 0)
            /\ client[c].elapsed = 0
            /\ client[c].accepts = 0
            /\ client[c].hooks = 0
            /\ client[c].discs = 1

C6_Witness ==
    \E c \in Clients :
        /\ Done(c) /\ client[c].res.kind = "LaunchErr"
        /\ client[c].launches = 1 /\ client[c].found = 0

\* C7: the TimedOut error is returned only once liveness_timeout has
\* elapsed, carries that duration, and ends the call: no hook, no second
\* discovery attempt.
C7_TimedOutAfterTimeout ==
    [][\A c \in Clients : TimedOutStep(c) =>
            /\ client[c].elapsed >= client[c].tmo
            /\ client'[c].res.val = client[c].tmo
            /\ client'[c].hooks = 0
            /\ client'[c].discs = 1]_vars

C7_Witness ==
    \E c \in Clients :
        /\ Done(c) /\ client[c].res = Res("TimedOut", MaxTimeout)
        /\ client[c].accepts = 0 /\ client[c].child # 0

\* C8: the step that returns the TimedOut error changes no process.
C8_TimeoutLeavesChild ==
    [][\A c \in Clients : TimedOutStep(c) => proc' = proc]_vars

C8_Witness ==
    \E c \in Clients :
        /\ Done(c) /\ client[c].res.kind = "TimedOut"
        /\ proc[client[c].child].pc \in {"spawned", "bound", "body"}

\* C9: once a call has returned, no ephemeral socket file made by its caller
\* exists, whichever way the call ended.
C9_EphemeralFileRemoved ==
    \A c \in Clients :
        Done(c) => \A p \in EphemPaths : files[p] # c

C9_Witness ==
    \E c, d \in Clients :
        /\ Done(c) /\ client[c].res.kind = "LaunchErr"
        /\ Done(d) /\ client[d].res.kind \in {"TimedOut", "ShutdownErr", "Conn"}
        /\ client[d].launches = 1

\* C10: a call invokes launch at most once and accepts at most one
\* connection, however many connections reach its ephemeral socket.
C10_OneLaunchOneAccept ==
    \A c \in Clients :
        /\ client[c].launches <= 1
        /\ client[c].accepts <= 1
        /\ client[c].accepts <= client[c].delivered

C10_Witness ==
    \E c \in Clients :
        /\ Done(c) /\ client[c].res.kind = "Conn"
        /\ client[c].delivered >= 2 /\ client[c].accepts = 1
        /\ client[c].launches = 1

\* The step in which caller c calls connect_to_running_service on its own.
StandaloneStep(c) ==
    /\ client'[c].alone
    /\ client'[c].calls = client[c].calls + 1
\* The step in which the ping connect of process s fails.
PingFailStep(s) ==
    /\ proc'[s].pings = proc[s].pings + 1
    /\ proc'[s].ping \notin {"ok", "shuterr"}
\* Process s has tried to bind the named socket.
BindTried(s) == proc[s].pc \in {"bound", "body", "exited"}
\* Process s has bound the named socket (and wrapped the listener).
BindSucceeded(s) ==
    \/ proc[s].pc \in {"bound", "body"}
    \/ proc[s].pc = "exited" /\ proc[s].res \in {"PingErr", "BodyOk", "BodyErr", "Killed"}

\* C11: a connect_to_running_service call returns in its one step, with the
\* connect error when the raw connect fails; it changes no file and no
\* process, binds no ephemeral socket and invokes no launch.
C11_ConnectRunningPure ==
    [][\A c \in Clients : StandaloneStep(c) =>
            /\ client'[c].pc = "done"
            /\ files' = files
            /\ proc' = proc
            /\ client'[c].launches = 0
            /\ client'[c].path = 0
            /\ client'[c].child = 0
            /\ UsConnectNamed = 0 => client'[c].res = Res("ConnectErr", 0)]_vars

C11_Witness ==
    \E c \in Clients :
        /\ Done(c) /\ client[c].alone
        /\ client[c].res.kind = "ConnectErr"
        /\ files[NamedPath] # NoFile

\* C12: when the ping connect fails, run_server returns the error without
\* ever running the server function if die_with_parent_prefailure is set,
\* and otherwise runs the server function and returns its result.
C12_PingFailure ==
    [][\A s \in Procs :
            /\ PingFailStep(s) =>
                IF proc[s].die
                THEN proc'[s].pc = "exited" /\ proc'[s].res = "PingErr"
                ELSE proc'[s].pc = "body" /\ proc'[s].res = "None"
            /\ proc[s].pc = "exited" => proc'[s] = proc[s]
            /\ proc[s].pc = "body" /\ proc'[s].pc = "exited" =>
                proc'[s].res \in {"BodyOk", "BodyErr", "Killed"}]_vars

C12_Witness ==
    \E s, t \in Procs :
        /\ proc[s].res = "PingErr"
        /\ proc[t].pc = "body" /\ proc[t].ping = "connerr" /\ ~proc[t].die

\* C13: a process tries the ping at most once: once before the server
\* function when it has a liveness path, never when it has none; once the
\* ping connect succeeded the server function runs, whatever us_shutdown
\* returned.
C13_PingOnce ==
    [][\A s \in Procs :
            /\ proc'[s].pings <= 1
            /\ proc[s].pc = "bound" /\ proc'[s].pc = "body" =>
                proc'[s].pings = IF proc[s].live = 0 THEN 0 ELSE 1
            /\ ( /\ proc'[s].pings > proc[s].pings
                 /\ UsConnectEphem(proc[s].live) # 0 ) =>
                proc'[s].pc = "body"]_vars

C13_Witness ==
    \E s, t \in Procs :
        /\ proc[s].pc = "body" /\ proc[s].ping = "shuterr" /\ proc[s].pings = 1
        /\ proc[t].pc = "exited" /\ proc[t].res = "BodyOk" /\ proc[t].pings = 0

\* C14: when the processes launched by two callers are the only ones started,
\* both have tried to bind the named socket and neither has ended after a
\* successful bind, exactly one of them holds the socket and the other's
\* bind has failed.
C14_OneBindWins ==
    \A c, d \in Clients :
        LET s == client[c].child
            t == client[d].child
        IN  ( /\ c # d /\ s # 0 /\ t # 0
              /\ \A u \in Procs \ {s, t} : proc[u].pc = "none"
              /\ BindTried(s) /\ BindTried(t)
              /\ Listening(s) \/ proc[s].res = "BindErr"
              /\ Listening(t) \/ proc[t].res = "BindErr" )
            => /\ ~(Listening(s) /\ Listening(t))
               /\ ~(proc[s].res = "BindErr" /\ proc[t].res = "BindErr")

C14_Witness ==
    \E c, d \in Clients :
        /\ c # d
        /\ client[c].launches = 1 /\ client[d].launches = 1
        /\ client[c].found = 0 /\ client[d].found = 0
        /\ client[c].path # 0 /\ client[d].path # 0
        /\ client[c].path # client[d].path
        /\ client[c].child # 0 /\ client[d].child # 0
        /\ Listening(client[c].child)
        /\ proc[client[d].child].res = "BindErr"

\* C15: at most one process at a time holds a bound handle for the named
\* socket.
C15_NamedSocketMutex ==
    Cardinality({s \in Procs : Listening(s)}) <= 1

\* C16: a call that failed discovery, launched a child that bound the named
\* socket, pinged the caller and is still serving, accepted that ping and
\* got Ok from the hook and from wrap_connection, has returned a connection
\* to the child after exactly two discovery attempts.
C16_ActivationConnects ==
    \A c \in Clients :
        ( /\ Done(c) /\ ~client[c].alone
          /\ client[c].found = 0 /\ client[c].child # 0
          /\ client[c].accepts = 1 /\ client[c].stray = 0
          /\ client[c].hooks = 1
          /\ client[c].res.kind \notin {"HookErr", "WrapErr"}
          /\ proc[client[c].child].pc = "body"
          /\ proc[client[c].child].ping \in {"ok", "shuterr"} )
        => /\ client[c].res = Res("Conn", client[c].child)
           /\ client[c].discs = 2

\* C17: a call whose first raw connect succeeded and did not get a
\* connection from the wrap has returned the wrap error at once: it has
\* bound no ephemeral socket and invoked no launch.
C17_WrapErrorReturned ==
    \A c \in Clients :
        ( /\ ~client[c].alone /\ client[c].found # 0
          /\ client[c].res # Res("Conn", client[c].found) )
        => /\ Done(c)
           /\ client[c].res = Res("WrapErr", client[c].found)
           /\ client[c].path = 0
           /\ client[c].launches = 0

\* C18: a process that has tried its ping has bound the named socket before,
\* and a caller that accepted a connection no stranger made has it from
\* such a process.
C18_PingAfterBind ==
    /\ \A s \in Procs : proc[s].pings >= 1 => BindSucceeded(s)
    /\ \A c \in Clients :
        client[c].accepts >= 1 /\ client[c].stray = 0 =>
            \E s \in Procs : proc[s].pings >= 1 /\ BindSucceeded(s)

C18_Witness ==
    \E c \in Clients :
        /\ client[c].accepts = 1 /\ client[c].stray = 0
        /\ client[c].child # 0
        /\ proc[client[c].child].ping = "ok"
        /\ files[NamedPath] = client[c].child

\* C19: when the hook is invoked and when the second discovery attempt is
\* made, the liveness connection has been accepted and shut down and no
\* ephemeral socket file of the caller exists; the hook comes before the
\* second discovery attempt.
C19_ActivationOrder ==
    \A c \in Clients :
        /\ client[c].pc \in {"hook", "disc2"} =>
            /\ client[c].accepts = 1
            /\ client[c].discs = 1
            /\ \A p \in EphemPaths : files[p] # c
        /\ client[c].pc = "shutdown" => client[c].accepts = 1 /\ client[c].hooks = 0
        /\ client[c].pc = "hook" => client[c].hooks = 0
        /\ client[c].pc = "disc2" => client[c].hooks = 1
        /\ client[c].discs = 2 => client[c].hooks = 1 /\ client[c].accepts = 1

C19_Witness ==
    \E c, d \in Clients :
        /\ client[c].pc = "disc2"
        /\ client[d].pc = "hook"

\* The step in which after_post_liveness_subprocess returns an error.
HookErrStep(c) ==
    /\ client[c].pc = "hook"
    /\ client'[c].res.kind = "HookErr"

\* C20: the step in which the hook fails returns the hook's error without a
\* second discovery attempt and changes no process and no file.
C20_HookErrorReturned ==
    [][\A c \in Clients :
            /\ client[c].pc = "hook" /\ client'[c].pc = "done" => HookErrStep(c)
            /\ HookErrStep(c) =>
                /\ client'[c].pc = "done"
                /\ client'[c].res = Res("HookErr", 0)
                /\ client'[c].discs = 1
                /\ proc' = proc
                /\ files' = files]_vars

C20_Witness ==
    \E c \in Clients :
        /\ Done(c) /\ client[c].res.kind = "HookErr"
        /\ client[c].child # 0
        /\ proc[client[c].child].pc = "body"
        /\ files[NamedPath] = client[c].child

\* The step in which caller c makes its second discovery attempt.
SecondDiscoveryStep(c) ==
    /\ client[c].pc = "disc2"
    /\ client'[c] # client[c]

\* C21: a call makes at most two discovery attempts; the second, made after
\* the hook, ends the call in the same step with that attempt's result, and
\* that step invokes no launch, binds no socket and changes no process.
C21_SecondDiscoveryFinal ==
    [][\A c \in Clients :
            /\ client'[c].discs <= 2
            /\ SecondDiscoveryStep(c) =>
                /\ client[c].hooks = 1
                /\ client'[c].pc = "done"
                /\ client'[c].discs = 2
                /\ client'[c].res \in ConnectToRunningService
                /\ client'[c].launches = client[c].launches
                /\ client'[c].launches = 1
                /\ files' = files
                /\ proc' = proc]_vars

C21_Witness ==
    \E c \in Clients :
        /\ Done(c) /\ client[c].discs = 2
        /\ client[c].res.kind \in {"ConnectErr", "WrapErr"}
        /\ client[c].launches = 1
        /\ \A p \in EphemPaths : files[p] = NoFile

C23_CommandTokens ==
    proc # NoCommand =>
        LET d == client.decl
            pre == IF client.prefix = <<>> THEN <<>> ELSE client.prefix[1]
            liv == IF client.live = <<>> THEN <<>>
                   ELSE d.liveness_pre_args \o <<client.live[1]>> \o d.liveness_post_args
            want == pre \o <<d.command>> \o d.pre_args \o liv \o d.post_args
        IN  /\ proc.res # "Panic"
            /\ <<proc.program>> \o proc.args = want
            /\ proc.program = IF pre = <<>> THEN d.command ELSE pre[1]
            /\ Len(proc.args) = Len(want) - 1
            /\ \A i \in 1..Len(proc.args) : proc.args[i] = want[i + 1]

C23_Witness ==
    /\ proc # NoCommand /\ proc.res = "Child"
    /\ client.prefix # <<>> /\ Len(client.prefix[1]) = MaxArgs
    /\ client.live # <<>>
    /\ client.decl.pre_args # <<>> /\ client.decl.post_args # <<>>
    /\ client.decl.liveness_pre_args # <<>> /\ client.decl.liveness_post_args # <<>>
    /\ proc.program # client.decl.command
    /\ client.decl.pre_args # client.decl.post_args

\* C24: a step that leaves caller c listening on its ephemeral socket leaves
\* the socket file c made where it is: no other call removes it.
C24_OwnEphemeralFileOnly ==
    [][\A c \in Clients :
            ( /\ EphemListening(c)
              /\ files[client[c].path] = c
              /\ client'[c].pc \in {"launch", "accept", "shutdown"} )
            => files'[client[c].path] = c]_vars

\* Process s was launched by a call that timed out, has bound the named
\* socket since, had its ping fail, and serves.
LateService(s) ==
    /\ \E d \in Clients :
        /\ Done(d) /\ client[d].res.kind = "TimedOut"
        /\ client[d].child = s
    /\ proc[s].pc = "body"
    /\ proc[s].ping = "connerr"
    /\ ~proc[s].die
    /\ UsConnectNamed = s
\* The step in which caller c starts a connect_to_service call.
ConnectStep(c) ==
    /\ client'[c].calls = client[c].calls + 1
    /\ ~client'[c].alone

\* C25: a connect_to_service call started while such a process serves
\* returns a connection to it from its first discovery attempt, with no
\* launch.
C25_LateServiceDiscovered ==
    [][\A c \in Clients : \A s \in Procs :
            ConnectStep(c) /\ LateService(s) =>
                /\ client'[c].pc = "done"
                /\ client'[c].res = Res("Conn", s)
                /\ client'[c].launches = 0]_vars

\* The step in which us_shutdown of the accepted connection fails.
ShutdownErrStep(c) ==
    /\ client[c].pc = "shutdown"
    /\ client'[c].res.kind = "ShutdownErr"

\* C26: the step in which the shutdown of the accepted liveness connection
\* fails returns that error, with no hook and no second discovery attempt,
\* removes the ephemeral socket file and changes no process.
C26_ShutdownErrorReturned ==
    [][\A c \in Clients :
            /\ client[c].pc = "shutdown" /\ client'[c].pc = "done" => ShutdownErrStep(c)
            /\ ShutdownErrStep(c) =>
                /\ client'[c].pc = "done"
                /\ client'[c].res = Res("ShutdownErr", 0)
                /\ client'[c].accepts = 1
                /\ client'[c].hooks = 0
                /\ client'[c].discs = 1
                /\ files'[client[c].path] = NoFile
                /\ proc' = proc]_vars

C26_Witness ==
    \E c \in Clients :
        /\ Done(c) /\ client[c].res.kind = "ShutdownErr"
        /\ client[c].child # 0
        /\ proc[client[c].child].pc = "body"
        /\ proc[client[c].child].ping \in {"ok", "shuterr"}
        /\ files[NamedPath] = client[c].child
        /\ \A p \in EphemPaths : files[p] = NoFile

\* The step in which unix_listener_wrapping fails in process s.
WrapListenerFails(s) ==
    /\ proc[s].pc = "spawned"
    /\ proc'[s].res = "WrapErr"

\* C27: the step in which the wrapping of the listener fails follows a raw
\* bind that succeeded, returns the error and leaves no file at the named
\* socket path.
C27_WrapErrorRemovesSocket ==
    [][\A s \in Procs : WrapListenerFails(s) =>
            /\ files[NamedPath] = NoFile
            /\ proc'[s].pc = "exited"
            /\ files'[NamedPath] = NoFile]_vars

C27_Witness ==
    \E s, t \in Procs :
        /\ proc[s].res = "WrapErr"
        /\ Listening(t)
        /\ files[NamedPath] = t

====
